---- MODULE Spec2Model ----
(***************************************************************************)
(* Position accounting of the portfolio tracker.                           *)
(*                                                                         *)
(*  - HistoryList.calculateClosedPositions: the FIFO lot matching that     *)
(*    turns the transaction list into closed positions, one step of the    *)
(*    forEach / while loops per action.                                    *)
(*  - PortfolioSummary: the per-stock running summary, the price fetch     *)
(*    (fetchPrices) and the figures rendered from them.                    *)
(*                                                                         *)
(* Numbers.  Quantities are integers (column INTEGER).  Prices and amounts *)
(* are counted in whole minor units.  A JavaScript number that results     *)
(* from a division is modelled as an exact extended rational [n, d]:       *)
(* d > 0 is the finite value n/d in lowest terms, <<1,0>> is Infinity,     *)
(* <<-1,0>> is -Infinity and <<0,0>> is NaN.  Floating-point rounding is   *)
(* not modelled.  Every zero denominator the program can produce is +0,    *)
(* so the sign of an infinity is the sign of its numerator.                *)
(***************************************************************************)
EXTENDS Integers, Sequences, FiniteSets, TLC

\* ------------------------------------------------------------ bounds
\* transactions in the list (no dividends recorded)
MaxTx == 3
\* transactions and dividends in the lists when dividends are recorded
MaxTxDiv == 2
MaxDiv == 2
MaxQty == 2
MaxPrice == 2
MaxTime == 3
MaxAmount == 1

\* ------------------------------------------------- extended rationals
Abs(x) == IF x < 0 THEN -x ELSE x

Sign(x) == IF x < 0 THEN -1 ELSE IF x > 0 THEN 1 ELSE 0

RECURSIVE Gcd(_, _)
Gcd(a, b) == IF b = 0 THEN a ELSE Gcd(b, a % b)

\* n/d in canonical form (a and b: the values of n and d, taken once)
Norm(n, d) ==
  CHOOSE r \in {IF b = 0 THEN [n |-> Sign(a), d |-> 0]
                ELSE [n |-> (Sign(b) * a) \div Gcd(Abs(a), Abs(b)),
                      d |-> (Sign(b) * b) \div Gcd(Abs(a), Abs(b))] :
                  a \in {n}, b \in {d}} : TRUE

Num(k) == [n |-> k, d |-> 1]

NaN == [n |-> 0, d |-> 0]

IsFinite(x) == x.d # 0

Mul(x, y) == Norm(x.n * y.n, x.d * y.d)

Add(x, y) ==
  IF x.d = 0 /\ y.d = 0 THEN (IF x = y THEN x ELSE NaN)
  ELSE Norm(x.n * y.d + y.n * x.d, x.d * y.d)

Neg(x) == [n |-> -x.n, d |-> x.d]

Sub(x, y) == Add(x, Neg(y))

\* x / y, as IEEE division: k/0 is an infinity, 0/0 is NaN
Div(x, y) == Mul(x, Norm(y.d, y.n))

\* comparisons; every comparison with NaN is false
Gt(x, y) == LET z == Sub(x, y) IN z # NaN /\ z.n > 0

Eq(x, y) == x # NaN /\ y # NaN /\ x = y

\* a rounding down (mutation of Ceil)
Floor(a, b) == a \div b

\* Math.ceil(a / b) for integers a and b > 0
Ceil(a, b) == IF a >= 0 THEN (a + b - 1) \div b ELSE -((-a) \div b)

\* ------------------------------------------------------------ records
Stocks == {"A", "B"}

\* 1000 * 60 * 60 * 24 milliseconds, a day; getTime() is counted in whole
\* seconds here, so a day is 60 * 60 * 24
Day == 60 * 60 * 24

\* timestamps (getTime()) lie half a day apart
Times == {k * (Day \div 2) : k \in 1..MaxTime}

\* a row of public.transactions as TransactionForm.handleSubmit inserts it
Transaction(s, ty, q, p, t) ==
  [stock_code |-> s, transaction_type |-> ty, quantity |-> q,
   price_per_share |-> p, total_value |-> q * p, transaction_date |-> t]

Transactions ==
  {Transaction(s, ty, q, p, t) :
     s \in Stocks, ty \in {"buy", "sell"}, q \in 1..MaxQty,
     p \in 1..MaxPrice, t \in Times}

Dividends ==
  [stock_code : Stocks, amount : 1..MaxAmount, dividend_date : Times]

SeqsUpTo(S, n) == UNION {[1..m -> S] : m \in 0..n}

\* .order("transaction_date", { ascending: false })
TransactionsDescending(s) ==
  \A j \in 1..(Len(s) - 1) : s[j].transaction_date >= s[j + 1].transaction_date

\* .order("dividend_date", { ascending: false })
DividendsDescending(s) ==
  \A j \in 1..(Len(s) - 1) : s[j].dividend_date >= s[j + 1].dividend_date

\* what fetchTransactions can put in the transactions state: up to n rows
FetchedTransactions(n) ==
  {s \in SeqsUpTo(Transactions, n) : TransactionsDescending(s)}

\* what fetchDividends can put in the dividends state: up to n rows
FetchedDividends(n) ==
  {s \in SeqsUpTo(Dividends, n) : DividendsDescending(s)}

\* Acquire(10 @1, t=1), Acquire(10 @2, t=2), Dispose(12 @5, t=3), as fetched
FifoExample ==
  <<Transaction("A", "sell", 12, 5, 3 * (Day \div 2)),
    Transaction("A", "buy", 10, 2, 2 * (Day \div 2)),
    Transaction("A", "buy", 10, 1, 1 * (Day \div 2))>>

\* the one-to-one maps of 1..n onto itself
PlacesOf(n) ==
  {f \in [1..n -> 1..n] : \A a, b \in 1..n : a # b => f[a] # f[b]}

\* ------------------------------------------------- Array.prototype.sort
\* Array.prototype.sort is stable; both comparators of the program are the
\* difference of an integer key.  A sort works on pairs [k: key, v: element].

\* an insertion that puts x before the elements of equal key
\* (mutation of InsertByKey)
InsertBeforeEqualKey(sorted, x) ==
  LET n == Cardinality({j \in 1..Len(sorted) : sorted[j].k < x.k})
  IN SubSeq(sorted, 1, n) \o <<x>> \o SubSeq(sorted, n + 1, Len(sorted))

\* x placed after every element whose key is not greater
InsertByKey(sorted, x) ==
  LET n == Cardinality({j \in 1..Len(sorted) : sorted[j].k <= x.k})
  IN SubSeq(sorted, 1, n) \o <<x>> \o SubSeq(sorted, n + 1, Len(sorted))

\* s sorted by ascending key[j], elements of equal key in their order in s
StableSortBy(s, key) ==
  LET F[j \in 0..Len(s)] ==
        IF j = 0 THEN <<>>
        ELSE InsertByKey(F[j - 1], [k |-> key[j], v |-> s[j]])
  IN [j \in 1..Len(s) |-> F[Len(s)][j].v]

\* [...transactions].sort((a, b) => getTime(a) - getTime(b))
sortTransactions(txs) ==
  StableSortBy(txs, [j \in 1..Len(txs) |-> txs[j].transaction_date])

\* a sort with the comparator's operands swapped: oldest sale first
\* (mutation of sortClosedPositions)
sortOldestSaleFirst(cps) ==
  StableSortBy(cps, [j \in 1..Len(cps) |-> cps[j].sellDate])

\* closedPositions.sort((a, b) => b.sellDate.getTime() - a.sellDate.getTime())
sortClosedPositions(cps) ==
  StableSortBy(cps, [j \in 1..Len(cps) |-> -cps[j].sellDate])

\* ------------------------------------------------ calculateClosedPositions
VARIABLES
  transactions,        \* Index state, prop of both components
  dividends,           \* Index state, prop of both components
  pc,                  \* position in calculateClosedPositions
  sortedTransactions,
  idx,                 \* forEach index, from 1
  stockQueues,
  closedPositions,
  remainingSell,
  returned,            \* the list calculateClosedPositions returns
  atEvent,             \* history: queues and closed count when the current
                       \* sell event started
  stockPrices,         \* PortfolioSummary state
  effectPending,       \* the [transactions] effect has still to run
  fetches,             \* the fetchPrices calls awaiting their response
  quote,               \* history: per stock, how its latest answered fetch
                       \* ended: [failed, price]
  toast,               \* title of the toast TransactionForm showed last
  submitted,           \* history: the fields of the form last submitted
  now,                 \* what new Date() gives the render
  runs,                \* history: the renders completed before this one
  given,               \* history: the props as this render received them
  previous             \* history: the previous render's clock and output

inputVars == <<transactions, dividends>>

engineVars == <<pc, sortedTransactions, idx, stockQueues, closedPositions,
                remainingSell, returned, atEvent>>

priceVars == <<stockPrices, effectPending, fetches, quote>>

formVars == <<toast, submitted>>

renderVars == <<now, runs, given, previous>>

vars == <<inputVars, engineVars, priceVars, formVars, renderVars>>

Min(a, b) == IF a <= b THEN a ELSE b

\* s.reduce((sum, d) => sum + d.amount, 0)
SumAmount(s) ==
  LET S[j \in 0..Len(s)] == IF j = 0 THEN 0 ELSE S[j - 1] + s[j].amount
  IN S[Len(s)]

\* a window that leaves the sell date out (mutation of InWindow)
InWindowBeforeSell(d, stock, buyDate, sellDate) ==
  /\ d.stock_code = stock
  /\ d.dividend_date >= buyDate
  /\ d.dividend_date < sellDate

\* dividends.filter(...).reduce(...): the window test of one dividend
InWindow(d, stock, buyDate, sellDate) ==
  /\ d.stock_code = stock
  /\ d.dividend_date >= buyDate
  /\ d.dividend_date <= sellDate

positionDividends(divs, stock, buyDate, sellDate) ==
  SumAmount(SelectSeq(divs, LAMBDA d : InWindow(d, stock, buyDate, sellDate)))

\* stockQueues[stock], [] when the key is not there yet
QueueOf(queues, stock) ==
  IF stock \in DOMAIN queues THEN queues[stock] ELSE <<>>

\* one queue shared by all the stocks (mutation of SetQueue)
SetEveryQueue(queues, stock, q) ==
  [s \in (DOMAIN queues) \cup {stock} |-> q]

SetQueue(queues, stock, q) ==
  [s \in (DOMAIN queues) \cup {stock} |-> IF s = stock THEN q ELSE queues[s]]

\* a lot carrying the value of the whole purchase as its unit price
\* (mutation of newLot)
newLotAtTotalValue(t) ==
  [quantity |-> t.quantity, price |-> t.total_value,
   date |-> t.transaction_date, totalValue |-> t.total_value]

newLot(t) ==
  [quantity |-> t.quantity, price |-> t.price_per_share,
   date |-> t.transaction_date, totalValue |-> t.total_value]

\* a matching that takes the most recent lot (mutation of oldestBuy)
newestBuy(queue) == queue[Len(queue)]

\* stockQueues[stock][0]
oldestBuy(queue) == queue[1]

\* Math.min(remainingSell, oldestBuy.quantity)
matchedQuantity(remaining, lot) == Min(remaining, lot.quantity)

\* the record pushed by one iteration of the while loop
closedPosition(t, lot, matched, divs) ==
  LET positionDivs ==
        positionDividends(divs, t.stock_code, lot.date, t.transaction_date)
      buyValue == matched * lot.price
      sellValue == matched * t.price_per_share
      days == Ceil(t.transaction_date - lot.date, Day)
      returnReais == (sellValue + positionDivs) - buyValue
      returnPercent == Mul(Div(Num(returnReais), Num(buyValue)), Num(100))
      months == Div(Num(days), Num(30))
  IN [stock_code |-> t.stock_code, buyDate |-> lot.date,
      sellDate |-> t.transaction_date, quantity |-> matched,
      buyPrice |-> lot.price, sellPrice |-> t.price_per_share,
      buyValue |-> buyValue, sellValue |-> sellValue,
      dividends |-> positionDivs, days |-> days,
      returnReais |-> returnReais, returnPercent |-> returnPercent,
      monthlyReturn |-> IF Gt(months, Num(0))
                        THEN Div(returnPercent, months) ELSE Num(0)]

\* a match that always removes the head lot (mutation of queueAfterMatch)
queueAlwaysShifted(queue, matched) == Tail(queue)

\* a match that reduces the head lot and never removes it
\* (mutation of queueAfterMatch)
queueNeverShifted(queue, matched) ==
  <<[queue[1] EXCEPT !.quantity = queue[1].quantity - matched]>> \o Tail(queue)

\* oldestBuy.quantity -= matchedQuantity; shift() when it reached 0
queueAfterMatch(queue, matched) ==
  LET left == queue[1].quantity - matched
  IN IF left = 0 THEN Tail(queue)
     ELSE <<[queue[1] EXCEPT !.quantity = left]>> \o Tail(queue)

\* a loop that goes on while the queue holds a lot, whatever is left to sell
\* (mutation of whileCondition)
whileQueueNotEmpty(remaining, queue) == Len(queue) > 0

whileCondition(remaining, queue) == remaining > 0 /\ Len(queue) > 0

\* the state in which calculateClosedPositions is entered
Entered ==
  /\ pc = "sort"
  /\ sortedTransactions = <<>>
  /\ idx = 0
  /\ stockQueues = <<>>
  /\ closedPositions = <<>>
  /\ remainingSell = 0
  /\ returned = <<>>
  /\ atEvent = [queues |-> <<>>, closed |-> 0]

\* PortfolioSummary is mounted: useState({}), the effect not yet run
Mounted ==
  /\ stockPrices = <<>>
  /\ effectPending = TRUE
  /\ fetches = <<>>
  /\ quote = <<>>

\* the clock of the renders: a reading before the latest transaction date
\* and one after it
Nows == {k * (Day \div 2) : k \in {MaxTime - 1, MaxTime + 1}}

\* the first render, with the props as fetched
FirstRender ==
  /\ runs = 0
  /\ given = [transactions |-> transactions, dividends |-> dividends]
  /\ previous = [now |-> 0, output |-> <<>>]

emptyForm ==
  [transaction_type |-> "", stock_code |-> "", quantity |-> 0,
   price_per_share |-> 0, transaction_date |-> 0]

\* TransactionForm is mounted and has shown no toast
FormShown ==
  /\ toast = ""
  /\ submitted = emptyForm

Init ==
  /\ transactions \in FetchedTransactions(MaxTx) \cup {FifoExample}
  /\ dividends = <<>>
  /\ Entered
  /\ Mounted
  /\ FormShown
  /\ now = (MaxTime + 1) * (Day \div 2)
  /\ FirstRender

InitDividends ==
  /\ transactions \in FetchedTransactions(MaxTxDiv)
  /\ dividends \in FetchedDividends(MaxDiv)
  /\ Entered
  /\ Mounted
  /\ FormShown
  /\ now = (MaxTime + 1) * (Day \div 2)
  /\ FirstRender

Current == sortedTransactions[idx]

\* a sort of the prop itself, without the copy
\* (mutation of transactionsAfterSort)
sortedInPlace(txs) == sortTransactions(txs)

\* [...transactions] is a copy: the sort leaves the prop as it is
transactionsAfterSort(txs) == txs

SortTransactions ==
  /\ pc = "sort"
  /\ sortedTransactions' = sortTransactions(transactions)
  /\ transactions' = transactionsAfterSort(transactions)
  /\ idx' = 1
  /\ pc' = "forEach"
  /\ UNCHANGED <<renderVars, formVars, priceVars, dividends, stockQueues,
                 closedPositions, remainingSell, returned, atEvent>>

Buy ==
  /\ pc = "forEach"
  /\ idx <= Len(sortedTransactions)
  /\ Current.transaction_type = "buy"
  /\ stockQueues' =
       SetQueue(stockQueues, Current.stock_code,
                Append(QueueOf(stockQueues, Current.stock_code), newLot(Current)))
  /\ idx' = idx + 1
  /\ UNCHANGED <<renderVars, formVars, priceVars, transactions, dividends, pc, sortedTransactions,
                 closedPositions, remainingSell, returned, atEvent>>

SellBegin ==
  /\ pc = "forEach"
  /\ idx <= Len(sortedTransactions)
  /\ Current.transaction_type # "buy"
  /\ stockQueues' =
       SetQueue(stockQueues, Current.stock_code,
                QueueOf(stockQueues, Current.stock_code))
  /\ remainingSell' = Current.quantity
  /\ atEvent' = [queues |-> stockQueues', closed |-> Len(closedPositions)]
  /\ pc' = "while"
  /\ UNCHANGED <<renderVars, formVars, priceVars, transactions, dividends, sortedTransactions, idx,
                 closedPositions, returned>>

SellMatch ==
  /\ pc = "while"
  /\ whileCondition(remainingSell, stockQueues[Current.stock_code])
  /\ LET queue == stockQueues[Current.stock_code]
         matched == matchedQuantity(remainingSell, oldestBuy(queue))
     IN /\ closedPositions' =
             Append(closedPositions,
                    closedPosition(Current, oldestBuy(queue), matched, dividends))
        /\ stockQueues' =
             [stockQueues EXCEPT ![Current.stock_code] =
                queueAfterMatch(queue, matched)]
        /\ remainingSell' = remainingSell - matched
  /\ UNCHANGED <<renderVars, formVars, priceVars, transactions, dividends, pc, sortedTransactions, idx,
                 returned, atEvent>>

SellEnd ==
  /\ pc = "while"
  /\ ~whileCondition(remainingSell, stockQueues[Current.stock_code])
  /\ idx' = idx + 1
  /\ pc' = "forEach"
  /\ UNCHANGED <<renderVars, formVars, priceVars, transactions, dividends, sortedTransactions, stockQueues,
                 closedPositions, remainingSell, returned, atEvent>>

Return ==
  /\ pc = "forEach"
  /\ idx > Len(sortedTransactions)
  /\ returned' = sortClosedPositions(closedPositions)
  /\ pc' = "done"
  /\ UNCHANGED <<renderVars, formVars, priceVars, transactions, dividends, sortedTransactions, idx,
                 stockQueues, closedPositions, remainingSell, atEvent>>

Next ==
  \/ SortTransactions
  \/ Buy
  \/ SellBegin
  \/ SellMatch
  \/ SellEnd
  \/ Return

Spec == Init /\ [][Next]_vars

\* calculateClosedPositions is a synchronous function: once called it runs
\* on, statement after statement, until it returns
SpecRunToCompletion == Init /\ [][Next]_vars /\ WF_vars(Next)

SpecDividends == InitDividends /\ [][Next]_vars

\* ------------------------------------------------------ PortfolioSummary
\* portfolio[t.stock_code] as first created
newEntry ==
  [quantity |-> 0, avgPrice |-> Num(0), totalInvested |-> 0,
   firstPurchaseDate |-> 0, hasFirstPurchase |-> FALSE, totalDividends |-> 0]

EntryOf(portfolio, code) ==
  IF code \in DOMAIN portfolio THEN portfolio[code] ELSE newEntry

\* the buy branch of the transactions.forEach callback
entryAfterBuy(e, t) ==
  LET currentTotal == Mul(Num(e.quantity), e.avgPrice)
      newTotal == Add(currentTotal, Num(t.total_value))
      quantity == e.quantity + t.quantity
      earlier == ~e.hasFirstPurchase \/ t.transaction_date < e.firstPurchaseDate
  IN [e EXCEPT !.quantity = quantity,
               !.avgPrice = Div(newTotal, Num(quantity)),
               !.totalInvested = e.totalInvested + t.total_value,
               !.firstPurchaseDate =
                  IF earlier THEN t.transaction_date ELSE e.firstPurchaseDate,
               !.hasFirstPurchase = TRUE]

\* a sale that also forgets the first purchase (mutation of entryAfterSell)
entryAfterSellForgetting(e, t) ==
  [e EXCEPT !.quantity = e.quantity - t.quantity, !.hasFirstPurchase = FALSE]

\* the sell branch of the transactions.forEach callback
entryAfterSell(e, t) == [e EXCEPT !.quantity = e.quantity - t.quantity]

\* one call of the transactions.forEach callback
portfolioAfter(portfolio, t) ==
  LET e == EntryOf(portfolio, t.stock_code)
      e2 == IF t.transaction_type = "buy"
            THEN entryAfterBuy(e, t) ELSE entryAfterSell(e, t)
  IN [c \in (DOMAIN portfolio) \cup {t.stock_code} |->
        IF c = t.stock_code THEN e2 ELSE portfolio[c]]

\* a callback that leaves out the dividends dated before the first purchase
\* (mutation of portfolioAfterDividend)
portfolioAfterDividendSincePurchase(portfolio, d) ==
  IF d.stock_code \in DOMAIN portfolio
       /\ d.dividend_date >= portfolio[d.stock_code].firstPurchaseDate
  THEN [portfolio EXCEPT ![d.stock_code].totalDividends = @ + d.amount]
  ELSE portfolio

\* one call of the dividends.forEach callback
portfolioAfterDividend(portfolio, d) ==
  IF d.stock_code \in DOMAIN portfolio
  THEN [portfolio EXCEPT ![d.stock_code].totalDividends = @ + d.amount]
  ELSE portfolio

\* the portfolio object of one render: the transactions in the order of the
\* prop, then the dividends
portfolioOf(txs, divs) ==
  LET T[j \in 0..Len(txs)] ==
        IF j = 0 THEN <<>> ELSE portfolioAfter(T[j - 1], txs[j])
      D[j \in 0..Len(divs)] ==
        IF j = 0 THEN T[Len(txs)] ELSE portfolioAfterDividend(D[j - 1], divs[j])
  IN D[Len(divs)]

portfolio == portfolioOf(transactions, dividends)

\* the stock codes of activeStocks
activeStocks == {c \in DOMAIN portfolio : portfolio[c].quantity > 0}

calculateReturn(avgPrice, currentPrice, divs, quantity) ==
  IF currentPrice = 0 THEN Num(0)
  ELSE LET totalInvested == Mul(avgPrice, Num(quantity))
           currentValue == Num(currentPrice * quantity)
       IN Mul(Div(Sub(Add(currentValue, Num(divs)), totalInvested),
                  totalInvested),
              Num(100))

calculateCurrentValue(quantity, currentPrice) == quantity * currentPrice

calculateResultInReais(quantity, avgPrice, currentPrice, divs) ==
  Sub(Num(quantity * currentPrice + divs), Mul(Num(quantity), avgPrice))

\* !stockPrice || stockPrice.loading
isLoading(code) ==
  code \notin DOMAIN stockPrices \/ stockPrices[code].loading

\* stockPrice?.currentPrice || 0
currentPriceOf(code) ==
  IF code \in DOMAIN stockPrices THEN stockPrices[code].currentPrice ELSE 0

\* what the table row of an active stock computes
returnPercentOf(code) ==
  calculateReturn(portfolio[code].avgPrice, currentPriceOf(code),
                  portfolio[code].totalDividends, portfolio[code].quantity)

currentValueOf(code) ==
  calculateCurrentValue(portfolio[code].quantity, currentPriceOf(code))

resultInReaisOf(code) ==
  calculateResultInReais(portfolio[code].quantity, portfolio[code].avgPrice,
                         currentPriceOf(code), portfolio[code].totalDividends)

\* the three figures of a row as its cells show them: a skeleton while
\* isLoading, the numbers otherwise
rowShown(code) ==
  IF isLoading(code) THEN [pending |-> TRUE]
  ELSE [pending |-> FALSE,
        currentValue |-> currentValueOf(code),
        resultInReais |-> resultInReaisOf(code),
        returnPercent |-> returnPercentOf(code)]

\* activeStocks.reduce over the stocks whose price is there and not loading
RECURSIVE SumCurrentValue(_)
SumCurrentValue(S) ==
  IF S = {} THEN 0
  ELSE LET c == CHOOSE c \in S : TRUE
       IN (IF isLoading(c) THEN 0
           ELSE currentValueOf(c) + portfolio[c].totalDividends)
          + SumCurrentValue(S \ {c})

RECURSIVE SumInvested(_)
SumInvested(S) ==
  IF S = {} THEN 0
  ELSE LET c == CHOOSE c \in S : TRUE
       IN portfolio[c].totalInvested + SumInvested(S \ {c})

totalCurrentValue == SumCurrentValue(activeStocks)

totalPortfolioInvested == SumInvested(activeStocks)

portfolioReturn ==
  IF totalPortfolioInvested > 0
  THEN Mul(Div(Num(totalCurrentValue - totalPortfolioInvested),
               Num(totalPortfolioInvested)),
           Num(100))
  ELSE Num(0)

allPricesLoaded == \A c \in activeStocks : ~isLoading(c)

\* ------------------------------------------------------------ fetchPrices
\* regularMarketPrice of a result: a price, or 0 for a missing or zero one
QuotedPrices == 0..MaxPrice

\* data.results: the requested symbols the response lists, with their price
ResultsFor(tickers) == UNION {[S -> QuotedPrices] : S \in SUBSET tickers}

RemoveAt(s, j) == SubSeq(s, 1, j - 1) \o SubSeq(s, j + 1, Len(s))

\* the effect on [transactions]: fetchPrices up to its await.  The call
\* keeps the activeStocks of its render (tickers), computed from the
\* transactions prop of that render (props).
StartFetch ==
  /\ effectPending
  /\ effectPending' = FALSE
  /\ IF activeStocks = {}
     THEN UNCHANGED <<stockPrices, fetches>>
     ELSE /\ stockPrices' =
               [c \in activeStocks |-> [currentPrice |-> 0, loading |-> TRUE]]
          /\ fetches' = Append(fetches, [tickers |-> activeStocks,
                                         props |-> transactions])
  /\ UNCHANGED <<renderVars, formVars, inputVars, engineVars, quote>>

\* the response is ok and has results
FetchResults ==
  \E j \in 1..Len(fetches) :
    \E results \in ResultsFor(fetches[j].tickers) :
      /\ stockPrices' =
           [c \in DOMAIN results |->
              [currentPrice |-> results[c], loading |-> FALSE]]
      /\ quote' =
           [c \in (DOMAIN quote) \cup (DOMAIN results) |->
              IF c \in DOMAIN results
              THEN [failed |-> FALSE, price |-> results[c]] ELSE quote[c]]
      /\ fetches' = RemoveAt(fetches, j)
      /\ UNCHANGED <<renderVars, formVars, inputVars, engineVars, effectPending>>

\* the response is ok and has no results field
FetchNoResults ==
  \E j \in 1..Len(fetches) :
    /\ fetches' = RemoveAt(fetches, j)
    /\ UNCHANGED <<renderVars, formVars, inputVars, engineVars, stockPrices, effectPending, quote>>

\* fetch rejects, the response is not ok, or json() throws: the catch block
FetchFailed ==
  \E j \in 1..Len(fetches) :
    /\ stockPrices' =
         [c \in fetches[j].tickers |-> [currentPrice |-> 0, loading |-> FALSE]]
    /\ quote' =
         [c \in (DOMAIN quote) \cup fetches[j].tickers |->
            IF c \in fetches[j].tickers
            THEN [failed |-> TRUE, price |-> 0] ELSE quote[c]]
    /\ fetches' = RemoveAt(fetches, j)
    /\ UNCHANGED <<renderVars, formVars, inputVars, engineVars, effectPending>>

NextPrices ==
  \/ StartFetch
  \/ FetchResults
  \/ FetchNoResults
  \/ FetchFailed

SpecPrices == Init /\ [][NextPrices]_vars

\* ----------------------------------------------- TransactionForm, the table
\* the rows the table holds in the submission model
MaxRows == 2

\* what the user can type into the form; the browser's min attributes are
\* not enforced on a scripted submit, so zero and negative numbers get through
FormInputs ==
  [transaction_type : {"buy", "sell"}, stock_code : Stocks,
   quantity : (-1)..MaxQty, price_per_share : (-1)..MaxPrice,
   transaction_date : Times]

\* a column check that lets a zero through (mutation of checkQuantity)
checkQuantityNotNegative(q) == q >= 0

\* CHECK (quantity > 0)
checkQuantity(q) == q > 0

\* CHECK (price_per_share > 0)
checkPricePerShare(p) == p > 0

\* the row handleSubmit hands to insert()
insertedRow(f) ==
  [stock_code |-> f.stock_code, transaction_type |-> f.transaction_type,
   quantity |-> f.quantity, price_per_share |-> f.price_per_share,
   total_value |-> f.quantity * f.price_per_share,
   transaction_date |-> f.transaction_date]

\* the table accepts the row
insertAccepts(row) ==
  checkQuantity(row.quantity) /\ checkPricePerShare(row.price_per_share)

\* fetchTransactions over the rows: every arrangement by descending date
\* (the order of rows of equal date is the database's choice)
fetchTransactions(rows) ==
  {s \in {[k \in 1..Len(rows) |-> rows[f[k]]] : f \in PlacesOf(Len(rows))} :
     TransactionsDescending(s)}

\* TransactionForm.handleSubmit, with onSuccess = fetchTransactions and the
\* render that follows setTransactions
handleSubmit(f) ==
  /\ pc = "done"
  /\ Len(transactions) < MaxRows
  /\ submitted' = f
  /\ IF insertAccepts(insertedRow(f))
     THEN /\ toast' = "registrada"
          /\ transactions' \in fetchTransactions(Append(transactions, insertedRow(f)))
          /\ pc' = "sort"
          /\ sortedTransactions' = <<>>
          /\ idx' = 0
          /\ stockQueues' = <<>>
          /\ closedPositions' = <<>>
          /\ remainingSell' = 0
          /\ returned' = <<>>
          /\ atEvent' = [queues |-> <<>>, closed |-> 0]
          /\ effectPending' = TRUE
          /\ given' = [transactions |-> transactions', dividends |-> dividends]
          /\ UNCHANGED <<dividends, stockPrices, fetches, quote, now, runs,
                         previous>>
     ELSE /\ toast' = "Erro"
          /\ UNCHANGED <<inputVars, engineVars, priceVars, renderVars>>

Submit == \E f \in FormInputs : handleSubmit(f)

\* a new account: no rows yet
InitSubmit ==
  /\ transactions = <<>>
  /\ dividends = <<>>
  /\ Entered
  /\ Mounted
  /\ FormShown
  /\ now = (MaxTime + 1) * (Day \div 2)
  /\ FirstRender

NextSubmit ==
  \/ Submit
  \/ SortTransactions
  \/ Buy
  \/ SellBegin
  \/ SellMatch
  \/ SellEnd
  \/ Return

SpecSubmit == InitSubmit /\ [][NextSubmit]_vars

\* the page in use: rows are added through the form while the prices of the
\* rows so far are being fetched
NextRefetch ==
  \/ Submit
  \/ StartFetch
  \/ FetchResults
  \/ FetchNoResults
  \/ FetchFailed
  \/ SortTransactions
  \/ Buy
  \/ SellBegin
  \/ SellMatch
  \/ SellEnd
  \/ Return

SpecRefetch == InitSubmit /\ [][NextRefetch]_vars

\* ------------------------------------------- rows as the table holds them
\* a row of public.transactions: quantity and price_per_share pass their
\* checks, total_value is a column of its own that no check ties to them
StoredTransactions ==
  [stock_code : Stocks, transaction_type : {"buy", "sell"},
   quantity : 1..MaxQty, price_per_share : 1..MaxPrice,
   total_value : 1..(MaxQty * MaxPrice), transaction_date : Times]

\* the transactions state after a fetch of up to MaxTxDiv such rows
InitStored ==
  /\ transactions \in
       {s \in SeqsUpTo(StoredTransactions, MaxTxDiv) : TransactionsDescending(s)}
  /\ dividends = <<>>
  /\ Entered
  /\ Mounted
  /\ FormShown
  /\ now = (MaxTime + 1) * (Day \div 2)
  /\ FirstRender

SpecStored == InitStored /\ [][Next]_vars

\* ------------------------------------------ one stock's records alone
\* the page of an account that holds only the rows of one stock of the
\* transactions so far: the same render over the filtered prop.  previous
\* keeps what the render of all the rows gave for that stock.
RunAlone ==
  \E stock \in Stocks :
    /\ pc = "done"
    /\ runs = 0
    /\ runs' = 1
    /\ previous' =
         [now |-> now,
          output |-> [stock |-> stock,
                      transactions |-> transactions,
                      closed |-> SelectSeq(returned,
                                           LAMBDA c : c.stock_code = stock),
                      queue |-> QueueOf(stockQueues, stock),
                      summary |-> EntryOf(portfolio, stock)]]
    /\ transactions' = SelectSeq(transactions, LAMBDA t : t.stock_code = stock)
    /\ given' = [transactions |-> transactions', dividends |-> dividends]
    /\ pc' = "sort"
    /\ sortedTransactions' = <<>>
    /\ idx' = 0
    /\ stockQueues' = <<>>
    /\ closedPositions' = <<>>
    /\ remainingSell' = 0
    /\ returned' = <<>>
    /\ atEvent' = [queues |-> <<>>, closed |-> 0]
    /\ UNCHANGED <<dividends, now, priceVars, formVars>>

NextAlone ==
  \/ RunAlone
  \/ SortTransactions
  \/ Buy
  \/ SellBegin
  \/ SellMatch
  \/ SellEnd
  \/ Return

SpecAlone == Init /\ [][NextAlone]_vars

\* ------------------------------------- the same records in another order
\* no two rows of the list carry the same transaction_date
DistinctTimestamps(txs) ==
  \A a, b \in 1..Len(txs) :
    a # b => txs[a].transaction_date # txs[b].transaction_date

\* the list with the row at place p[j] put at place j
Reordered(txs, p) == [j \in 1..Len(txs) |-> txs[p[j]]]

\* the two components rendered over the same rows in another order of the
\* transactions prop.  previous keeps what the render of the rows as fetched
\* gave.
Reorder ==
  \E p \in PlacesOf(Len(transactions)) :
    /\ pc = "done"
    /\ runs = 0
    /\ DistinctTimestamps(transactions)
    /\ Reordered(transactions, p) # transactions
    /\ runs' = 1
    /\ previous' =
         [now |-> now,
          output |-> [transactions |-> transactions,
                      closed |-> returned,
                      queues |-> stockQueues,
                      summary |-> portfolio]]
    /\ transactions' = Reordered(transactions, p)
    /\ given' = [transactions |-> transactions', dividends |-> dividends]
    /\ pc' = "sort"
    /\ sortedTransactions' = <<>>
    /\ idx' = 0
    /\ stockQueues' = <<>>
    /\ closedPositions' = <<>>
    /\ remainingSell' = 0
    /\ returned' = <<>>
    /\ atEvent' = [queues |-> <<>>, closed |-> 0]
    /\ UNCHANGED <<dividends, now, priceVars, formVars>>

NextReorder ==
  \/ Reorder
  \/ SortTransactions
  \/ Buy
  \/ SellBegin
  \/ SellMatch
  \/ SellEnd
  \/ Return

SpecReorder == Init /\ [][NextReorder]_vars

\* ------------------------------------------------------------ renders
\* renders in the render model
MaxRuns == 2

\* a return per day, not per 30 days (mutation of calculateMonthlyReturn)
returnPerDay(firstPurchaseDate, hasFirstPurchase, currentReturn, clock) ==
  IF ~hasFirstPurchase THEN Num(0)
  ELSE LET diffDays == Ceil(Abs(clock - firstPurchaseDate), Day)
       IN IF diffDays = 0 THEN Num(0) ELSE Div(currentReturn, Num(diffDays))

calculateMonthlyReturn(firstPurchaseDate, hasFirstPurchase, currentReturn, clock) ==
  IF ~hasFirstPurchase THEN Num(0)
  ELSE LET diffTime == Abs(clock - firstPurchaseDate)
           diffDays == Ceil(diffTime, Day)
           diffMonths == Div(Num(diffDays), Num(30))
       IN IF Eq(diffMonths, Num(0)) THEN Num(0)
          ELSE Div(currentReturn, diffMonths)

monthlyReturnOf(code) ==
  calculateMonthlyReturn(portfolio[code].firstPurchaseDate,
                         portfolio[code].hasFirstPurchase,
                         returnPercentOf(code), now)

\* what one render of the page shows: the closed positions of HistoryList,
\* the rows and the totals of PortfolioSummary
output ==
  [closed |-> returned,
   rows |-> [c \in activeStocks |->
               [quantity |-> portfolio[c].quantity,
                avgPrice |-> portfolio[c].avgPrice,
                totalDividends |-> portfolio[c].totalDividends,
                shown |-> rowShown(c),
                monthlyReturn |-> monthlyReturnOf(c)]],
   totalCurrentValue |-> totalCurrentValue,
   totalPortfolioInvested |-> totalPortfolioInvested,
   portfolioReturn |-> portfolioReturn]

\* the page renders again: calculateClosedPositions starts over with new
\* locals, new Date() is read again
Rerender ==
  /\ pc = "done"
  /\ runs < MaxRuns - 1
  /\ runs' = runs + 1
  /\ previous' = [now |-> now, output |-> output]
  /\ given' = [transactions |-> transactions, dividends |-> dividends]
  /\ now' \in {n \in Nows : n >= now}
  /\ pc' = "sort"
  /\ sortedTransactions' = <<>>
  /\ idx' = 0
  /\ stockQueues' = <<>>
  /\ closedPositions' = <<>>
  /\ remainingSell' = 0
  /\ returned' = <<>>
  /\ atEvent' = [queues |-> <<>>, closed |-> 0]
  /\ UNCHANGED <<inputVars, priceVars, formVars>>

\* prices as a completed fetch leaves them: every active stock resolved
ResolvedPrices(txs, divs) ==
  LET active == {c \in DOMAIN portfolioOf(txs, divs) :
                   portfolioOf(txs, divs)[c].quantity > 0}
  IN {[c \in active |-> [currentPrice |-> p, loading |-> FALSE]] :
        p \in 1..MaxPrice}

\* A bought 10 @10 and sold 10 @13 sixty days later; B bought 10 @10 and seen
\* sixty days later at a price of 13: two returns of 30% over 60 days
MonthlyExample ==
  <<Transaction("A", "sell", 10, 13, 121 * (Day \div 2)),
    Transaction("B", "buy", 10, 10, 1 * (Day \div 2)),
    Transaction("A", "buy", 10, 10, 1 * (Day \div 2))>>

InitRender ==
  /\ \/ /\ transactions \in FetchedTransactions(MaxTxDiv)
        /\ dividends \in FetchedDividends(MaxDiv - 1)
        /\ now \in Nows
        /\ stockPrices \in ResolvedPrices(transactions, dividends)
     \/ /\ transactions = MonthlyExample
        /\ dividends = <<>>
        /\ now = 121 * (Day \div 2)
        /\ stockPrices = [c \in {"B"} |-> [currentPrice |-> 13, loading |-> FALSE]]
  /\ effectPending = FALSE
  /\ fetches = <<>>
  /\ quote = [c \in DOMAIN stockPrices |->
                [failed |-> FALSE, price |-> stockPrices[c].currentPrice]]
  /\ Entered
  /\ FormShown
  /\ FirstRender

NextRender ==
  \/ Rerender
  \/ SortTransactions
  \/ Buy
  \/ SellBegin
  \/ SellMatch
  \/ SellEnd
  \/ Return

SpecRender == InitRender /\ [][NextRender]_vars

\* ====================================================================
\* Properties
\* ====================================================================
\* the quantities of a sequence of lots, events or closed positions, added up
SumQuantity(s) ==
  LET S[j \in 0..Len(s)] == IF j = 0 THEN 0 ELSE S[j - 1] + s[j].quantity
  IN S[Len(s)]

\* the events the forEach has finished with
Processed == SubSeq(sortedTransactions, 1, idx - 1)

OpenQuantity(stock) == SumQuantity(QueueOf(stockQueues, stock))

ClosedQuantity(stock) ==
  SumQuantity(SelectSeq(closedPositions, LAMBDA c : c.stock_code = stock))

AcquiredQuantity(stock) ==
  SumQuantity(SelectSeq(Processed, LAMBDA t : t.stock_code = stock
                                               /\ t.transaction_type = "buy"))

\* C1: quantity conservation.  In every state, for every instrument, the
\* quantity left in the open lots plus the quantity of the closed positions
\* emitted equals the quantity of the Acquire events processed so far.
C1_QuantityConservation ==
  \A stock \in Stocks :
    OpenQuantity(stock) + ClosedQuantity(stock) = AcquiredQuantity(stock)

\* between two events, a lot partly disposed of: some of it closed, some open
C1_Witness ==
  /\ pc = "forEach"
  /\ \E stock \in Stocks :
       /\ OpenQuantity(stock) > 0
       /\ ClosedQuantity(stock) > 0
       /\ \E j \in 1..Len(Processed) :
            /\ Processed[j].stock_code = stock
            /\ Processed[j].transaction_type = "buy"
            /\ Processed[j].quantity > stockQueues[stock][1].quantity
            /\ Processed[j].transaction_date = stockQueues[stock][1].date

\* the closed positions the current sell event has emitted so far
EmittedByEvent ==
  SubSeq(closedPositions, atEvent.closed + 1, Len(closedPositions))

\* the sell event in progress asks for more than its queue held
OverDisposal ==
  /\ pc = "while"
  /\ Current.quantity > SumQuantity(atEvent.queues[Current.stock_code])

\* C2: over-disposal is rejected.  While and after a Dispose event that
\* requests more than its instrument's queue holds is processed, the lot
\* queues and the closed-position list are what they were before the event.
C2_OverDisposalRejected ==
  OverDisposal =>
    /\ stockQueues = atEvent.queues
    /\ EmittedByEvent = <<>>

\* C3: when a Dispose event has been processed, the quantities of the closed
\* positions emitted for it add up to the quantity it requested.
C3_MatchedEqualsRequested ==
  (pc = "while" /\ ~whileCondition(remainingSell, stockQueues[Current.stock_code]))
    => SumQuantity(EmittedByEvent) = Current.quantity

\* one iteration of the matching loop consumes from the head lot only
FifoStep ==
  (closedPositions' # closedPositions) =>
    LET stock == Current.stock_code
        q == stockQueues[stock]
        q2 == stockQueues'[stock]
        c == closedPositions'[Len(closedPositions')]
    IN /\ closedPositions' = Append(closedPositions, c)
       /\ c.stock_code = stock
       /\ c.buyDate = q[1].date
       /\ c.buyPrice = q[1].price
       /\ \A j \in 2..Len(q) : q[j].date >= q[1].date
       /\ IF q[1].quantity <= remainingSell
          THEN c.quantity = q[1].quantity /\ q2 = Tail(q)
          ELSE /\ c.quantity = remainingSell
               /\ Len(q2) = Len(q)
               /\ Tail(q2) = Tail(q)
               /\ q2[1] = [q[1] EXCEPT !.quantity = q[1].quantity - remainingSell]
       /\ \A s \in (DOMAIN stockQueues) \ {stock} :
            stockQueues'[s] = stockQueues[s]

\* the outcome of the worked example
FifoExampleResult ==
  (transactions = FifoExample /\ pc = "done") =>
    /\ Len(closedPositions) = 2
    /\ closedPositions[1].quantity = 10
    /\ closedPositions[1].buyPrice = 1
    /\ closedPositions[1].buyDate = 1 * (Day \div 2)
    /\ closedPositions[2].quantity = 2
    /\ closedPositions[2].buyPrice = 2
    /\ closedPositions[2].buyDate = 2 * (Day \div 2)
    /\ Len(stockQueues["A"]) = 1
    /\ stockQueues["A"][1].quantity = 8
    /\ stockQueues["A"][1].price = 2

\* C4: FIFO order.  Every match takes from the head lot of the instrument's
\* queue, which is the earliest acquired; a head lot of at most the remaining
\* request is drained whole and removed, a larger one is reduced and stays at
\* the head; no other lot changes.  The worked example gives closed positions
\* (10 @1) and (2 @2) and one open lot of 8 @2.
C4_Fifo == [][FifoStep]_vars /\ []FifoExampleResult

\* the worked example has run to its end, through a drained and a reduced lot
C4_Witness ==
  /\ transactions = FifoExample
  /\ pc = "done"
  /\ Len(closedPositions) = 2
  /\ OpenQuantity("A") = 8

\* the amounts of the dividends at the indices in S, added up
RECURSIVE SumAmountAt(_)
SumAmountAt(S) ==
  IF S = {} THEN 0
  ELSE LET k == CHOOSE k \in S : TRUE
       IN dividends[k].amount + SumAmountAt(S \ {k})

\* the dividends of c's instrument dated within [c.buyDate, c.sellDate]
WindowOf(c) ==
  {k \in 1..Len(dividends) :
     /\ dividends[k].stock_code = c.stock_code
     /\ c.buyDate <= dividends[k].dividend_date
     /\ dividends[k].dividend_date <= c.sellDate}

\* C9: distribution windowing.  The dividends field of every closed position
\* is the sum of the amounts of exactly the dividends of its instrument whose
\* date t has buyDate <= t <= sellDate, both bounds included.
C9_DistributionWindow ==
  \A j \in 1..Len(closedPositions) :
    closedPositions[j].dividends = SumAmountAt(WindowOf(closedPositions[j]))

\* a closed position with one dividend of its instrument on its very sell
\* date, which counts, and one after its sell date, which does not
C9_Witness ==
  \E j \in 1..Len(closedPositions) :
    \E k, l \in 1..Len(dividends) :
      LET c == closedPositions[j]
      IN /\ dividends[k].stock_code = c.stock_code
         /\ dividends[l].stock_code = c.stock_code
         /\ dividends[k].dividend_date = c.sellDate
         /\ c.buyDate < c.sellDate
         /\ dividends[l].dividend_date > c.sellDate
         /\ c.dividends = dividends[k].amount

\* out holds the elements of in, f[k] being the place in `in` of out[k]
\* the timestamps ascend and elements of equal timestamp keep their order
IsStableSortOf(out, in) ==
  /\ Len(out) = Len(in)
  /\ \E f \in PlacesOf(Len(in)) :
       /\ \A k \in 1..Len(in) : out[k] = in[f[k]]
       /\ \A k, l \in 1..Len(in) :
            k < l =>
              /\ out[k].transaction_date <= out[l].transaction_date
              /\ (out[k].transaction_date = out[l].transaction_date
                    => f[k] < f[l])

\* C10: once sorted, sortedTransactions is a permutation of transactions with
\* non-decreasing timestamps in which events of equal timestamp keep their
\* relative order in transactions.
C10_StableChronological ==
  pc # "sort" => IsStableSortOf(sortedTransactions, transactions)

\* a sorted list of three events that the sort had to reorder, two of them
\* different events with the same timestamp
C10_Witness ==
  /\ pc # "sort"
  /\ Len(sortedTransactions) = 3
  /\ sortedTransactions # transactions
  /\ \E k \in 1..2 :
       /\ sortedTransactions[k].transaction_date
            = sortedTransactions[k + 1].transaction_date
       /\ sortedTransactions[k] # sortedTransactions[k + 1]

\* the cost of the lots of a queue: quantity x unit cost, added up
SumCost(q) ==
  LET S[j \in 0..Len(q)] ==
        IF j = 0 THEN 0 ELSE S[j - 1] + q[j].quantity * q[j].price
  IN S[Len(q)]

\* the quantity-weighted mean unit cost of the lots still open, 0 with none
FifoAverageCost(stock) ==
  LET q == QueueOf(stockQueues, stock)
  IN IF SumQuantity(q) = 0 THEN Num(0)
     ELSE Div(Num(SumCost(q)), Num(SumQuantity(q)))

\* quantity bought minus quantity sold of a stock over the events evs
NetQuantity(evs, stock) ==
  LET S[j \in 0..Len(evs)] ==
        IF j = 0 THEN 0
        ELSE S[j - 1] + (IF evs[j].stock_code # stock THEN 0
                         ELSE IF evs[j].transaction_type = "buy"
                              THEN evs[j].quantity ELSE -evs[j].quantity)
  IN S[Len(evs)]

\* in chronological order no sale exceeds what is held at its time
NeverOverDisposed ==
  LET evs == sortTransactions(transactions)
  IN \A k \in 1..Len(evs) : \A stock \in Stocks :
       NetQuantity(SubSeq(evs, 1, k), stock) >= 0

\* C5: for every instrument, the average cost of the portfolio summary is
\* the weighted-average cost of the lots that FIFO matching of the same
\* transactions leaves open.  Stated for the histories without
\* over-disposal, where FIFO matching clamps nothing, and for the
\* instruments the summary lists (those with an open quantity).
C5_WeightedAverageCost ==
  (pc = "done" /\ NeverOverDisposed) =>
    \A stock \in activeStocks :
      portfolio[stock].avgPrice = FifoAverageCost(stock)

\* the stock's price is unavailable: no fetch has answered for it yet, or
\* the latest one failed
PriceUnavailable(code) == code \notin DOMAIN quote \/ quote[code].failed

\* C6: an open position whose current price is unavailable shows its current
\* value, result and return as pending, never as numbers computed from a
\* price of 0.
C6_PendingNotZero ==
  \A code \in activeStocks :
    PriceUnavailable(code) => rowShown(code).pending

\* C7: the invested total is summed over the same instruments as the current
\* value total: the open instruments whose price is resolved.
C7_TotalsOverResolved ==
  totalPortfolioInvested = SumInvested({c \in activeStocks : ~isLoading(c)})

\* C8: zero-division guard.  No average cost and no return percent is the
\* result of a division by zero, and a return percent over an acquisition
\* value of 0 is 0.  Stated for the histories without over-disposal.
C8_ZeroDivisionGuard ==
  NeverOverDisposed =>
  /\ \A code \in DOMAIN portfolio : IsFinite(portfolio[code].avgPrice)
  /\ \A code \in activeStocks :
       /\ IsFinite(returnPercentOf(code))
       /\ Mul(portfolio[code].avgPrice, Num(portfolio[code].quantity)) = Num(0)
            => returnPercentOf(code) = Num(0)
  /\ IsFinite(portfolioReturn)
  /\ \A j \in 1..Len(closedPositions) :
       /\ IsFinite(closedPositions[j].returnPercent)
       /\ IsFinite(closedPositions[j].monthlyReturn)

\* a form input the claim calls invalid
InvalidInput(f) == f.quantity <= 0 \/ f.price_per_share <= 0

\* nothing the computation holds comes from a non-positive quantity or price
OnlyPositiveRecords ==
  /\ \A j \in 1..Len(transactions) : ~InvalidInput(transactions[j])
  /\ \A j \in 1..Len(sortedTransactions) : ~InvalidInput(sortedTransactions[j])
  /\ \A stock \in DOMAIN stockQueues : \A j \in 1..Len(stockQueues[stock]) :
       stockQueues[stock][j].quantity > 0 /\ stockQueues[stock][j].price > 0
  /\ \A j \in 1..Len(closedPositions) :
       /\ closedPositions[j].quantity > 0
       /\ closedPositions[j].buyPrice > 0
       /\ closedPositions[j].sellPrice > 0
  /\ (toast # "" /\ InvalidInput(submitted)) => toast = "Erro"

\* the step that submits an invalid form changes no record and no summary
InvalidSubmitChangesNothing ==
  (InvalidInput(submitted') /\ (submitted' # submitted \/ toast' # toast)) =>
    /\ toast' = "Erro"
    /\ transactions' = transactions
    /\ stockQueues' = stockQueues
    /\ closedPositions' = closedPositions
    /\ portfolioOf(transactions', dividends') = portfolioOf(transactions, dividends)

\* C11: a transaction with quantity <= 0 or unit price <= 0 is rejected (the
\* insert fails and the form reports the error): it never becomes a lot, is
\* never matched as a disposal and leaves every summary's quantity, average
\* cost and invested total as they were.
C11_InvalidInputRejected ==
  []OnlyPositiveRecords /\ [][InvalidSubmitChangesNothing]_vars

\* a form with quantity 0 and a valid price was submitted and refused while a
\* position was open
C11_Witness ==
  /\ toast = "Erro"
  /\ submitted.quantity = 0
  /\ submitted.price_per_share > 0
  /\ activeStocks # {}

\* the quantity the Acquire events of stock after place k of the sorted list
\* bring in
AcquiredAfter(stock, k) ==
  SumQuantity(SelectSeq(SubSeq(sortedTransactions, k + 1, Len(sortedTransactions)),
                        LAMBDA t : t.stock_code = stock
                                   /\ t.transaction_type = "buy"))

\* c matches an Acquire event with a Dispose event that comes after it
MatchesEarlierAcquire(c) ==
  \E i, k \in 1..Len(sortedTransactions) :
    /\ i < k
    /\ sortedTransactions[i].transaction_type = "buy"
    /\ sortedTransactions[i].stock_code = c.stock_code
    /\ sortedTransactions[i].transaction_date = c.buyDate
    /\ sortedTransactions[i].price_per_share = c.buyPrice
    /\ sortedTransactions[k].transaction_type = "sell"
    /\ sortedTransactions[k].stock_code = c.stock_code
    /\ sortedTransactions[k].transaction_date = c.sellDate
    /\ sortedTransactions[k].price_per_share = c.sellPrice

\* C12: no look-ahead.  Every closed position matches a Dispose event with an
\* Acquire event that precedes it in the sorted list, so buyDate <= sellDate;
\* and what the Acquire events after a Dispose event bring in is offset by
\* that Dispose neither in the lot queue nor in the summary's open quantity.
C12_NoLookAhead ==
  pc = "done" =>
    /\ \A j \in 1..Len(closedPositions) :
         /\ MatchesEarlierAcquire(closedPositions[j])
         /\ closedPositions[j].buyDate <= closedPositions[j].sellDate
    /\ \A k \in 1..Len(sortedTransactions) :
         LET stock == sortedTransactions[k].stock_code
         IN (/\ sortedTransactions[k].transaction_type = "sell"
             /\ AcquiredAfter(stock, k) > 0) =>
              /\ OpenQuantity(stock) >= AcquiredAfter(stock, k)
              /\ EntryOf(portfolio, stock).quantity >= AcquiredAfter(stock, k)

\* C13: determinism.  A render changes nothing it was given (the transactions
\* and dividends props stay as received), and a second render of the same
\* props and prices at the same clock reading shows the same closed
\* positions, rows and totals as the first.
C13_Determinism ==
  /\ transactions = given.transactions
  /\ dividends = given.dividends
  /\ (pc = "done" /\ runs >= 1 /\ now = previous.now) =>
       output = previous.output

\* a second render at the same clock reading, with a closed position, an open
\* row and props whose order the sort had to change
C13_Witness ==
  /\ pc = "done"
  /\ runs >= 1
  /\ now = previous.now
  /\ returned # <<>>
  /\ activeStocks # {}
  /\ sortedTransactions # transactions

\* the step that emits a closed position fills it from the head lot, the
\* Dispose event and the matched quantity
ClosedFieldsStep ==
  (closedPositions' # closedPositions) =>
    LET lot == stockQueues[Current.stock_code][1]
        m == remainingSell - remainingSell'
        c == closedPositions'[Len(closedPositions')]
        diff == Current.transaction_date - lot.date
    IN /\ m > 0
       /\ c.quantity = m
       /\ c.buyValue = m * lot.price
       /\ c.sellValue = m * Current.price_per_share
       /\ c.returnReais = c.sellValue + c.dividends - c.buyValue
       /\ c.dividends = SumAmountAt(WindowOf(c))
       /\ c.days >= 0
       /\ c.days * Day >= diff
       /\ (c.days - 1) * Day < diff

\* C14: every closed position emitted for a match of quantity m between a lot
\* and a Dispose event has quantity = m > 0, buyValue = m x the lot's price,
\* sellValue = m x the event's price, returnReais = sellValue + dividends -
\* buyValue, and days = the least whole number of days that covers
\* sellDate - buyDate, which is not negative.
C14_ClosedPositionFields == [][ClosedFieldsStep]_vars

\* a closed position for part of a lot, held half a day (counted as one day),
\* with a dividend in its window and a return different from 0
C14_Witness ==
  \E j \in 1..Len(closedPositions) :
    LET c == closedPositions[j]
    IN /\ c.sellDate - c.buyDate = Day \div 2
       /\ c.days = 1
       /\ c.dividends > 0
       /\ c.buyValue # c.sellValue
       /\ OpenQuantity(c.stock_code) > 0
       /\ c.quantity < MaxQty

\* the least whole number of days that covers diff seconds, diff >= 0
WholeDays(diff) ==
  CHOOSE d \in 0..(diff \div Day + 1) : d * Day >= diff /\ (d - 1) * Day < diff

\* monthly is percent over days / 30, and 0 over no days
IsMonthlyOf(monthly, percent, days) ==
  IF days > 0 THEN Mul(monthly, Num(days)) = Mul(percent, Num(30))
  ELSE monthly = Num(0)

\* the worked example: 30% over 60 days is 15% a month, closed and open
MonthlyExampleResult ==
  (transactions = MonthlyExample /\ pc = "done") =>
    /\ Len(closedPositions) = 1
    /\ closedPositions[1].days = 60
    /\ closedPositions[1].returnPercent = Num(30)
    /\ closedPositions[1].monthlyReturn = Num(15)
    /\ activeStocks = {"B"}
    /\ returnPercentOf("B") = Num(30)
    /\ monthlyReturnOf("B") = Num(15)

\* C15: monthly normalization.  The monthly return of a closed position is
\* returnPercent / (days / 30) when days > 0 and 0 when days = 0; that of an
\* open row is the row's return over the whole days from firstPurchaseDate to
\* the clock reading in the same way (stated for a first purchase that is
\* not after the clock reading).  30% over 60 days gives 15%.
C15_MonthlyNormalization ==
  pc = "done" =>
    /\ \A j \in 1..Len(closedPositions) :
         IsMonthlyOf(closedPositions[j].monthlyReturn,
                     closedPositions[j].returnPercent, closedPositions[j].days)
    /\ \A code \in activeStocks :
         (portfolio[code].hasFirstPurchase
            /\ now >= portfolio[code].firstPurchaseDate) =>
           IsMonthlyOf(monthlyReturnOf(code), returnPercentOf(code),
                       WholeDays(now - portfolio[code].firstPurchaseDate))
    /\ MonthlyExampleResult

\* the worked example has run to its end
C15_Witness ==
  /\ transactions = MonthlyExample
  /\ pc = "done"
  /\ monthlyReturnOf("B") = Num(15)
  /\ closedPositions[1].monthlyReturn = Num(15)

\* C16: the list calculateClosedPositions returns is ordered most recent sale
\* first (of two adjacent entries the earlier has the later or the same
\* sellDate) and holds exactly the closed positions emitted during matching,
\* each once.
C16_ReturnedOrder ==
  pc = "done" =>
    /\ \A k \in 1..(Len(returned) - 1) :
         returned[k].sellDate >= returned[k + 1].sellDate
    /\ Len(returned) = Len(closedPositions)
    /\ \E f \in PlacesOf(Len(closedPositions)) :
         \A k \in 1..Len(returned) : returned[k] = closedPositions[f[k]]

\* two closed positions of different sale dates, returned in the reverse of
\* the order they were emitted in
C16_Witness ==
  /\ pc = "done"
  /\ Len(returned) = 2
  /\ returned[1].sellDate > returned[2].sellDate
  /\ returned[1] = closedPositions[2]
  /\ returned[2] = closedPositions[1]

\* the places in the transactions prop of the buys of a stock
BuysOf(code) ==
  {j \in 1..Len(transactions) :
     /\ transactions[j].stock_code = code
     /\ transactions[j].transaction_type = "buy"}

\* the transactions prop without its sells
OnlyBuys == SelectSeq(transactions, LAMBDA t : t.transaction_type = "buy")

\* C17: for every instrument of the summary, firstPurchaseDate is the earliest
\* date of all its Acquire events (none when it has no Acquire event), and
\* it is what it would be had no Dispose event been recorded.
C17_FirstAcquisition ==
  LET summary == portfolio
      buysOnly == portfolioOf(OnlyBuys, dividends)
  IN \A code \in DOMAIN summary :
       /\ summary[code].hasFirstPurchase = (BuysOf(code) # {})
       /\ BuysOf(code) # {} =>
            /\ \E j \in BuysOf(code) :
                 summary[code].firstPurchaseDate = transactions[j].transaction_date
            /\ \A j \in BuysOf(code) :
                 summary[code].firstPurchaseDate <= transactions[j].transaction_date
            /\ summary[code].firstPurchaseDate = buysOnly[code].firstPurchaseDate

\* a stock still open whose earliest lot has been closed whole: the open lot
\* is younger than the first purchase date the summary keeps
C17_Witness ==
  /\ pc = "done"
  /\ \E code \in activeStocks :
       /\ Len(QueueOf(stockQueues, code)) > 0
       /\ stockQueues[code][1].date > portfolio[code].firstPurchaseDate
       /\ \E j \in 1..Len(closedPositions) :
            /\ closedPositions[j].stock_code = code
            /\ closedPositions[j].buyDate = portfolio[code].firstPurchaseDate

\* the places in the dividends prop of the dividends of a stock
DividendsOf(code) ==
  {k \in 1..Len(dividends) : dividends[k].stock_code = code}

\* the stocks with at least one transaction
Transacted == {transactions[j].stock_code : j \in 1..Len(transactions)}

\* C18: the totalDividends of every instrument of the summary is the sum of
\* the amounts of all the dividends recorded for it, whatever their dates; a
\* dividend of an instrument without any transaction enters no summary and
\* no closed position.
C18_TotalDividends ==
  LET summary == portfolio
  IN /\ DOMAIN summary = Transacted
     /\ \A code \in DOMAIN summary :
          summary[code].totalDividends = SumAmountAt(DividendsOf(code))
     /\ \A k \in 1..Len(dividends) :
          dividends[k].stock_code \notin Transacted =>
            /\ dividends[k].stock_code \notin DOMAIN summary
            /\ \A j \in 1..Len(closedPositions) :
                 closedPositions[j].stock_code # dividends[k].stock_code

\* an open stock credited with a dividend dated before its first purchase,
\* next to a dividend of a stock that has no transaction
C18_Witness ==
  /\ pc = "done"
  /\ \E code \in activeStocks : \E k \in DividendsOf(code) :
       /\ dividends[k].dividend_date < portfolio[code].firstPurchaseDate
       /\ portfolio[code].totalDividends = dividends[k].amount
  /\ \E k \in 1..Len(dividends) : dividends[k].stock_code \notin Transacted

\* the rows with total_value put to quantity x price_per_share
Derived(txs) ==
  [j \in 1..Len(txs) |->
     [txs[j] EXCEPT !.total_value = txs[j].quantity * txs[j].price_per_share]]

ClosedOf(cps, stock) == SelectSeq(cps, LAMBDA c : c.stock_code = stock)

\* a step of the matching loops over an event of one stock leaves the queue
\* and the closed positions of every other stock as they are
IsolationStep ==
  (pc \in {"forEach", "while"} /\ idx <= Len(sortedTransactions)) =>
    \A other \in Stocks \ {Current.stock_code} :
      /\ QueueOf(stockQueues', other) = QueueOf(stockQueues, other)
      /\ ClosedOf(closedPositions', other) = ClosedOf(closedPositions, other)

\* a call of the summary's forEach callback leaves the entry of every other
\* stock as it is
SummaryIsolation ==
  \A j \in 1..Len(transactions) :
    \A other \in Stocks \ {transactions[j].stock_code} :
      EntryOf(portfolioOf(SubSeq(transactions, 1, j), <<>>), other)
        = EntryOf(portfolioOf(SubSeq(transactions, 1, j - 1), <<>>), other)

\* the records of one stock computed alone give what they gave among the
\* records of the other stocks
AloneSame ==
  (pc = "done" /\ runs = 1) =>
    LET stock == previous.output.stock
    IN /\ returned = previous.output.closed
       /\ QueueOf(stockQueues, stock) = previous.output.queue
       /\ EntryOf(portfolio, stock) = previous.output.summary

\* C20: instruments are isolated.  Processing an event of one instrument
\* leaves the lot queue, the closed positions and the summary entry of every
\* other instrument unchanged, so an instrument's results are those of its
\* records computed alone, whatever happens (an over-disposal included) in
\* another instrument's records.
C20_Isolation ==
  [][IsolationStep]_vars /\ []((pc = "sort" => SummaryIsolation) /\ AloneSame)

\* a stock with a closed position computed alone, after a render in which
\* the other stock had a sale and no purchase at all
C20_Witness ==
  /\ pc = "done"
  /\ runs = 1
  /\ returned # <<>>
  /\ \E j \in 1..Len(previous.output.transactions) :
       LET t == previous.output.transactions[j]
       IN /\ t.stock_code # previous.output.stock
          /\ t.transaction_type = "sell"
          /\ \A k \in 1..Len(previous.output.transactions) :
               previous.output.transactions[k].stock_code = t.stock_code =>
                 previous.output.transactions[k].transaction_type = "sell"

\* every lot held in a queue has something left
LotsPositive ==
  \A stock \in DOMAIN stockQueues :
    \A j \in 1..Len(stockQueues[stock]) : stockQueues[stock][j].quantity > 0

\* the buy events of a stock the forEach has finished with
ProcessedBuys(stock) ==
  SelectSeq(Processed, LAMBDA t : t.stock_code = stock
                                  /\ t.transaction_type = "buy")

\* a match that takes all the head lot has left removes the lot in that step
DrainedLotRemoved ==
  (pc = "while" /\ closedPositions' # closedPositions) =>
    LET q == stockQueues[Current.stock_code]
        q2 == stockQueues'[Current.stock_code]
        c == closedPositions'[Len(closedPositions')]
    IN (c.quantity = q[1].quantity) =>
         /\ Len(q2) = Len(q) - 1
         /\ q2 = Tail(q)

\* C21: lots in a queue are positive.  In every state every lot held in a
\* lot queue has a remaining quantity > 0, so no empty or negative lot is at
\* the head when a disposal starts; a lot whose remaining quantity reaches
\* zero is removed from its queue in the step that brings it to zero.
C21_LotsPositive == []LotsPositive /\ [][DrainedLotRemoved]_vars

\* between two events: a lot of the stock was drained and removed, and a
\* later lot of the same stock is still held
C21_Witness ==
  /\ pc = "forEach"
  /\ \E stock \in DOMAIN stockQueues :
       /\ Len(stockQueues[stock]) > 0
       /\ Len(ProcessedBuys(stock)) > Len(stockQueues[stock])
       /\ stockQueues[stock][1].date > ProcessedBuys(stock)[1].transaction_date

\* a buy event appends its lot at the tail of its stock's queue, with the
\* event's quantity, price and date, and leaves every lot already held alone
AcquireAppends ==
  (pc = "forEach" /\ idx <= Len(sortedTransactions)
     /\ Current.transaction_type = "buy") =>
    LET stock == Current.stock_code
        q == QueueOf(stockQueues, stock)
        q2 == QueueOf(stockQueues', stock)
    IN /\ Len(q2) = Len(q) + 1
       /\ SubSeq(q2, 1, Len(q)) = q
       /\ q2[Len(q2)].quantity = Current.quantity
       /\ q2[Len(q2)].price = Current.price_per_share
       /\ q2[Len(q2)].date = Current.transaction_date
       /\ \A other \in Stocks \ {stock} :
            QueueOf(stockQueues', other) = QueueOf(stockQueues, other)

\* a step that is not a buy event pushes nothing, and a lot it keeps has the
\* price and the date it had; its quantity changes only by the match just
\* emitted, which lowers it
LotsOnlyDecrease ==
  ~(pc = "forEach" /\ idx <= Len(sortedTransactions)
      /\ Current.transaction_type = "buy") =>
    \A stock \in Stocks :
      LET q == QueueOf(stockQueues, stock)
          q2 == QueueOf(stockQueues', stock)
          off == Len(q) - Len(q2)
      IN /\ off \in {0, 1}
         /\ \A j \in 1..Len(q2) :
              /\ q2[j].price = q[j + off].price
              /\ q2[j].date = q[j + off].date
              /\ q2[j].totalValue = q[j + off].totalValue
              /\ q2[j].quantity # q[j + off].quantity =>
                   /\ pc = "while"
                   /\ j + off = 1
                   /\ Len(closedPositions') = Len(closedPositions) + 1
                   /\ q2[j].quantity
                        = q[1].quantity
                            - closedPositions'[Len(closedPositions')].quantity
                   /\ q2[j].quantity < q[1].quantity

\* every lot held carries the price and the date of a buy event of its stock
\* already processed, and at most that event's quantity
LotsFromAcquire ==
  \A stock \in DOMAIN stockQueues :
    \A j \in 1..Len(stockQueues[stock]) :
      \E k \in 1..Len(ProcessedBuys(stock)) :
        LET t == ProcessedBuys(stock)[k]
            lot == stockQueues[stock][j]
        IN /\ lot.price = t.price_per_share
           /\ lot.date = t.transaction_date
           /\ lot.quantity <= t.quantity

\* C22: lots change only by matches.  An Acquire event appends its lot at
\* the tail of the queue and leaves every existing lot unchanged; after that
\* the only change to a lot is a decrease of its remaining quantity by a
\* disposal match: its unit cost and its acquisition date stay those of the
\* Acquire event that created it.
C22_LotFrame ==
  [][AcquireAppends /\ LotsOnlyDecrease]_vars /\ []LotsFromAcquire

\* a buy event has just appended its lot behind a lot that an earlier match
\* had reduced
C22_Witness ==
  /\ pc = "forEach"
  /\ idx > 1
  /\ Processed[idx - 1].transaction_type = "buy"
  /\ LET stock == Processed[idx - 1].stock_code
         q == QueueOf(stockQueues, stock)
     IN /\ Len(q) >= 2
        /\ ClosedQuantity(stock) > 0
        /\ q[Len(q)].quantity = Processed[idx - 1].quantity
        /\ \E k \in 1..Len(ProcessedBuys(stock)) :
             /\ ProcessedBuys(stock)[k].transaction_date = q[1].date
             /\ ProcessedBuys(stock)[k].price_per_share = q[1].price
             /\ ProcessedBuys(stock)[k].quantity > q[1].quantity

\* the iterations of the while loop over the sell event in progress are at
\* most the lots its queue held when the event started
IterationsBounded ==
  pc = "while" =>
    Len(EmittedByEvent) <= Len(atEvent.queues[Current.stock_code])

\* an iteration of the while loop removes the head lot or brings what is left
\* to sell to zero
IterationProgress ==
  (pc = "while" /\ closedPositions' # closedPositions) =>
    \/ Len(stockQueues'[Current.stock_code])
         = Len(stockQueues[Current.stock_code]) - 1
    \/ remainingSell' = 0

\* the forEach goes through the events one by one, forward
OneEventAtATime ==
  /\ idx' \in {idx, idx + 1}
  /\ idx' = idx + 1 =>
       \/ pc = "sort"
       \/ pc = "forEach" /\ Current.transaction_type = "buy"
       \/ pc = "while" /\ ~whileCondition(remainingSell,
                                          stockQueues[Current.stock_code])

\* at the return every event has been gone through
AllProcessed ==
  pc = "done" =>
    /\ Len(sortedTransactions) = Len(transactions)
    /\ idx = Len(transactions) + 1

\* C23: matching terminates.  The loop over a Dispose event runs at most as
\* many iterations as its queue held lots when the event started, each
\* iteration removing the head lot or bringing the remaining request to zero;
\* the single pass goes through every event once, in order, and returns.
C23_Termination ==
  /\ []IterationsBounded
  /\ [][IterationProgress /\ OneEventAtATime]_vars
  /\ []AllProcessed
  /\ <>(pc = "done")

\* the pass has returned, and its last sell event took as many iterations as
\* the two lots its queue held when it started
C23_Witness ==
  /\ pc = "done"
  /\ Len(closedPositions) - atEvent.closed = 2
  /\ LET stock == closedPositions[Len(closedPositions)].stock_code
     IN /\ stock \in DOMAIN atEvent.queues
        /\ Len(atEvent.queues[stock]) = 2

\* the closed positions of the second render are those of the first
SameClosedPositions ==
  (pc = "done" /\ runs = 1) => returned = previous.output.closed

\* the open quantity, total invested and first purchase of every stock are,
\* in the second render, those of the first
SameOrderFreeFields ==
  (pc = "done" /\ runs = 1) =>
    LET summary == portfolio
    IN /\ DOMAIN summary = DOMAIN previous.output.summary
       /\ \A code \in DOMAIN summary :
            /\ summary[code].quantity = previous.output.summary[code].quantity
            /\ summary[code].totalInvested
                 = previous.output.summary[code].totalInvested
            /\ summary[code].firstPurchaseDate
                 = previous.output.summary[code].firstPurchaseDate

\* the average cost of every stock held is, in the second render, that of
\* the first; looked at for the histories without over-disposal
SameAverageCost ==
  (pc = "done" /\ runs = 1 /\ NeverOverDisposed) =>
    LET summary == portfolio
    IN \A code \in DOMAIN summary :
         summary[code].quantity > 0 =>
           summary[code].avgPrice = previous.output.summary[code].avgPrice

\* C24: the results do not depend on the order of the records.  Two lists
\* with the same rows, of pairwise distinct timestamps, in different orders
\* give the same closed positions and, for every stock, the same open
\* quantity, weighted-average cost, total invested and first acquisition.
C24_OrderIndependent ==
  /\ SameClosedPositions
  /\ SameOrderFreeFields
  /\ SameAverageCost

\* C25: the two computations agree on open quantity.  When the matching has
\* returned, for every instrument the open quantity of the portfolio summary
\* is the sum of the quantities left in the instrument's lot queue, and it is
\* not negative.
C25_OpenQuantityAgrees ==
  pc = "done" =>
    LET summary == portfolio
    IN \A stock \in Stocks :
         /\ EntryOf(summary, stock).quantity = OpenQuantity(stock)
         /\ EntryOf(summary, stock).quantity >= 0

\* C26: the portfolio-level return is derived as the per-instrument one.
\* With exactly one open instrument, its price resolved, the portfolio return
\* percent is that instrument's return percent, partial disposals included.
\* Looked at for the histories without over-disposal and a quoted price > 0.
C26_PortfolioReturnAsInstrument ==
  (NeverOverDisposed /\ Cardinality(activeStocks) = 1) =>
    \A code \in activeStocks :
      (~isLoading(code) /\ currentPriceOf(code) > 0) =>
        portfolioReturn = returnPercentOf(code)

\* the response of a fetch of an earlier render, arriving when the effect of
\* the present render has started its own fetch, leaves the price map as the
\* later fetch made it
StaleResponseIgnored ==
  \A j \in 1..Len(fetches) :
    (/\ fetches[j].props # transactions
     /\ ~effectPending
     /\ activeStocks # {}
     /\ fetches' = RemoveAt(fetches, j)) =>
      stockPrices' = stockPrices

\* C27: overlapping price fetches.  When the transaction list changes while
\* a price fetch is in flight, the response of the earlier fetch, arriving
\* after the later fetch started or completed, never overwrites the loading
\* marks or the prices the later fetch put in the price map.
C27_LatestFetchWins == [][StaleResponseIgnored]_vars

\* C28: a price fetch settles.  Once the effect has run and every fetch it
\* started has completed (with results, without results or with an error),
\* every open instrument has a price entry that is not loading; nothing
\* happens afterwards that could still settle it.
C28_FetchSettles ==
  (~effectPending /\ fetches = <<>>) => allPricesLoaded

====
